---- MODULE Spec2Model ----
(***************************************************************************)
(* Model of pkg/kubemark/hollow_kubelet.go: the configuration builder      *)
(* GetHollowKubeletConfig, the dependency assembly NewHollowKubelet and    *)
(* the blocking HollowKubelet.Run, executed by one calling routine.        *)
(*                                                                         *)
(* Pointers are indices into per-type heaps (0 is nil).  A Go int is a     *)
(* 64-bit two's-complement value kept as four 16-bit words, least          *)
(* significant first, so that the int -> int32 conversions of the code     *)
(* are computed on the bits.  Durations are counted in seconds.            *)
(***************************************************************************)
EXTENDS Integers, Sequences, FiniteSets, TLC

VARIABLES
    defaults,     \* which defaults NewKubeletFlags/NewKubeletConfiguration yield in this process
    dirs,         \* directories existing on the file system
    flagsHeap,    \* options.KubeletFlags objects, by address
    configHeap,   \* kubeletconfig.KubeletConfiguration objects, by address
    depsHeap,     \* kubelet.Dependencies objects, by address
    kubelets,     \* HollowKubelet objects, by address
    calls,        \* log of GetHollowKubeletConfig calls: arguments and outcome
    news,         \* log of NewHollowKubelet calls: arguments and returned address
    running,      \* address of the HollowKubelet whose Run was called (0: none)
    runPC,        \* position of the calling routine inside Run
    runResult,    \* what RunKubelet returned to Run: "none", "nil" or "err"
    invocations,  \* log of RunKubelet invocations: the arguments handed over
    proc          \* the process: status and, when it ended, where

vars == <<defaults, dirs, flagsHeap, configHeap, depsHeap, kubelets, calls, news,
          running, runPC, runResult, invocations, proc>>

----------------------------------------------------------------------------
(* Bounds of the model.                                                    *)

\* GetHollowKubeletConfig calls in one behaviour.
MaxCalls == 2

\* NewHollowKubelet calls in one behaviour.
MaxKubelets == 1

\* The random name suffixes MakeTempDirOrDie draws from.
TempSuffixes == {"a", "b"}

\* The two sets of defaults a build of the options package may yield.
DefaultVariants == {1, 2}

\* The nil pointer.
NilPtr == 0

\* A nil interface or error value.
NilRef == "nil"

----------------------------------------------------------------------------
(* Go integers.                                                            *)

Word == 2^16

HalfWord == 2^15

\* The Go int (64 bit) holding the number n, for n in the int32 range:
\* n sign-extended to four words.
I64(n) ==
    IF n >= 0
    THEN <<n % Word, n \div Word, 0, 0>>
    ELSE LET m == (n + 2147483647) + 1
         IN  <<m % Word, (m \div Word) + HalfWord, Word - 1, Word - 1>>

\* An int whose value lies in the int32 range: the two high words repeat
\* the sign bit of the low 32 bits.
InInt32Range(x) ==
    \/ x[2] <  HalfWord /\ x[3] = 0 /\ x[4] = 0
    \/ x[2] >= HalfWord /\ x[3] = Word - 1 /\ x[4] = Word - 1

\* A mutated conversion: narrows to 16 bits instead of 32.
Int32Narrow16(x) ==
    IF x[1] >= HalfWord THEN x[1] - Word ELSE x[1]

\* int32(x): keeps the low 32 bits of x and reads them as a signed number.
Int32(x) ==
    IF x[2] >= HalfWord
    THEN (x[2] - Word) * Word + x[1]
    ELSE x[2] * Word + x[1]

----------------------------------------------------------------------------
(* Durations, in seconds.                                                  *)

Second == 1

Minute == 60 * Second

----------------------------------------------------------------------------
(* utils.MakeTempDirOrDie(prefix, baseDir): creates a directory that did   *)
(* not exist, named prefix plus a random suffix, under baseDir (the        *)
(* system's temporary directory when baseDir is empty), and returns its    *)
(* path; ends the process when the directory cannot be created.            *)

TempBase(baseDir) == IF baseDir = "" THEN "/tmp" ELSE baseDir

TempPath(prefix, baseDir, s) == TempBase(baseDir) \o "/" \o prefix \o s

\* The outcomes of one call on file system fs: a fresh path, or death.
MakeTempDirOrDie(prefix, baseDir, fs) ==
    {[ok |-> TRUE, path |-> TempPath(prefix, baseDir, s)] :
        s \in {t \in TempSuffixes : TempPath(prefix, baseDir, t) \notin fs}}
    \cup {[ok |-> FALSE, path |-> ""]}

----------------------------------------------------------------------------
(* Defaults of the options package.  The values are not set by this file;  *)
(* variant 1 and variant 2 differ in every field.                          *)

DefBool(v) == v = 2

DefInt(v) == v - 1

DefStr(v) == IF v = 1 THEN "" ELSE "default"

\* options.NewKubeletFlags(): the fields GetHollowKubeletConfig assigns, and
\* Rest for all the fields it does not.
NewKubeletFlags(v) ==
    [ EnableServer            |-> DefBool(v),
      RootDirectory           |-> DefStr(v),
      HostnameOverride        |-> DefStr(v),
      MinimumGCAge            |-> DefInt(v),
      MaxContainerCount       |-> DefInt(v),
      MaxPerPodContainerCount |-> DefInt(v),
      RegisterNode            |-> DefBool(v),
      RegisterSchedulable     |-> DefBool(v),
      ProviderID              |-> DefStr(v),
      Rest                    |-> <<"KubeletFlags defaults", v>> ]

\* options.NewKubeletConfiguration(), when it succeeds.
NewKubeletConfiguration(v) ==
    [ StaticPodURL                     |-> DefStr(v),
      Address                          |-> DefStr(v),
      Port                             |-> DefInt(v),
      ReadOnlyPort                     |-> DefInt(v),
      StaticPodPath                    |-> DefStr(v),
      FileCheckFrequency               |-> DefInt(v),
      HTTPCheckFrequency               |-> DefInt(v),
      NodeStatusUpdateFrequency        |-> DefInt(v),
      NodeStatusReportFrequency        |-> DefInt(v),
      SyncFrequency                    |-> DefInt(v),
      EvictionPressureTransitionPeriod |-> DefInt(v),
      MaxPods                          |-> DefInt(v),
      PodsPerCore                      |-> DefInt(v),
      ClusterDNS                       |-> <<DefStr(v)>>,
      ImageGCHighThresholdPercent      |-> DefInt(v),
      ImageGCLowThresholdPercent       |-> DefInt(v),
      VolumeStatsAggPeriod             |-> DefInt(v),
      CgroupRoot                       |-> DefStr(v),
      CPUCFSQuota                      |-> DefBool(v),
      EnableControllerAttachDetach     |-> DefBool(v),
      EnableDebuggingHandlers          |-> DefBool(v),
      CgroupsPerQOS                    |-> DefBool(v),
      HairpinMode                      |-> DefStr(v),
      MaxOpenFiles                     |-> DefInt(v),
      RegistryBurst                    |-> DefInt(v),
      RegistryPullQPS                  |-> DefInt(v),
      ResolverConfig                   |-> DefStr(v),
      KubeletCgroups                   |-> DefStr(v),
      SerializeImagePulls              |-> DefBool(v),
      SystemCgroups                    |-> DefStr(v),
      ProtectKernelDefaults            |-> DefBool(v),
      Rest                             |-> <<"KubeletConfiguration defaults", v>> ]

----------------------------------------------------------------------------
(* GetHollowKubeletConfig.                                                 *)

\* A mutated flags step: the host name is taken from the root directory.
HollowFlagsHostFromRoot(f, testRootDir, nodeName) ==
    [f EXCEPT !.EnableServer            = TRUE,
              !.RootDirectory           = testRootDir,
              !.HostnameOverride        = testRootDir,
              !.MinimumGCAge            = 1 * Minute,
              !.MaxContainerCount       = 100,
              !.MaxPerPodContainerCount = 2,
              !.RegisterNode            = TRUE,
              !.RegisterSchedulable     = TRUE,
              !.ProviderID              = "kubemark://" \o nodeName]

\* The flags struct: the defaults f with the hollow kubelet's overrides.
HollowFlags(f, testRootDir, nodeName) ==
    [f EXCEPT !.EnableServer            = TRUE,
              !.RootDirectory           = testRootDir,
              !.HostnameOverride        = nodeName,
              !.MinimumGCAge            = 1 * Minute,
              !.MaxContainerCount       = 100,
              !.MaxPerPodContainerCount = 2,
              !.RegisterNode            = TRUE,
              !.RegisterSchedulable     = TRUE,
              !.ProviderID              = "kubemark://" \o nodeName]

\* The config struct: the defaults c with the hollow kubelet's overrides.
HollowConfigBody(c, podFilePath, port, readOnlyPort, maxPods, podsPerCore) ==
    [c EXCEPT !.StaticPodURL                     = "",
              !.Address                          = "0.0.0.0",
              !.Port                             = port,
              !.ReadOnlyPort                     = readOnlyPort,
              !.StaticPodPath                    = podFilePath,
              !.FileCheckFrequency               = 20 * Second,
              !.HTTPCheckFrequency               = 20 * Second,
              !.NodeStatusUpdateFrequency        = 10 * Second,
              !.NodeStatusReportFrequency        = Minute,
              !.SyncFrequency                    = 10 * Second,
              !.EvictionPressureTransitionPeriod = 5 * Minute,
              !.MaxPods                          = maxPods,
              !.PodsPerCore                      = podsPerCore,
              !.ClusterDNS                       = << >>,
              !.ImageGCHighThresholdPercent      = 90,
              !.ImageGCLowThresholdPercent       = 80,
              !.VolumeStatsAggPeriod             = Minute,
              !.CgroupRoot                       = "",
              !.CPUCFSQuota                      = TRUE,
              !.EnableControllerAttachDetach     = FALSE,
              !.EnableDebuggingHandlers          = TRUE,
              !.CgroupsPerQOS                    = FALSE,
              !.HairpinMode                      = "kubeletconfig.HairpinVeth",
              !.MaxOpenFiles                     = 1024,
              !.RegistryBurst                    = 10,
              !.RegistryPullQPS                  = 5,
              !.ResolverConfig                   = "kubetypes.ResolvConfDefault",
              !.KubeletCgroups                   = "/kubelet",
              !.SerializeImagePulls              = TRUE,
              !.SystemCgroups                    = "",
              !.ProtectKernelDefaults            = FALSE]

\* A mutated config step: the image GC thresholds keep their defaults.
HollowConfigNoImageGC(c, podFilePath, kubeletPort, kubeletReadOnlyPort, maxPods, podsPerCore) ==
    [HollowConfigBody(c, podFilePath, Int32(kubeletPort), Int32(kubeletReadOnlyPort),
                      Int32(maxPods), Int32(podsPerCore))
        EXCEPT !.ImageGCHighThresholdPercent = c.ImageGCHighThresholdPercent,
               !.ImageGCLowThresholdPercent  = c.ImageGCLowThresholdPercent]

\* The config struct for the arguments, the four integers narrowed to int32.
HollowConfig(c, podFilePath, kubeletPort, kubeletReadOnlyPort, maxPods, podsPerCore) ==
    HollowConfigBody(c, podFilePath, Int32(kubeletPort), Int32(kubeletReadOnlyPort),
                     Int32(maxPods), Int32(podsPerCore))

\* A mutated error check: the error of NewKubeletConfiguration is ignored.
ConfigErrIgnored(err) == FALSE

\* A mutated error check: the test is inverted.
ConfigErrInverted(err) == err = NilRef

\* if err != nil { panic(err) }
ConfigPanics(err) == err # NilRef

\* The arguments the calls are made with.
Inputs ==
    { [nodeName |-> "node-a", kubeletPort |-> I64(10250), kubeletReadOnlyPort |-> I64(10255),
       maxPods |-> I64(110), podsPerCore |-> I64(0)],
      [nodeName |-> "node-b", kubeletPort |-> I64(-1), kubeletReadOnlyPort |-> I64(2147483647),
       maxPods |-> I64(-2147483647 - 1), podsPerCore |-> I64(65536)],
      \* 2^32 + 7, 2^31, -2^31 - 1, -2^32: all outside the int32 range
      [nodeName |-> "node-a", kubeletPort |-> <<7, 0, 1, 0>>,
       kubeletReadOnlyPort |-> <<0, HalfWord, 0, 0>>,
       maxPods |-> <<Word - 1, HalfWord - 1, Word - 1, Word - 1>>,
       podsPerCore |-> <<0, 0, Word - 1, Word - 1>>],
      \* 2^31, 10250, 2^32 + 7, -1
      [nodeName |-> "", kubeletPort |-> <<0, HalfWord, 0, 0>>,
       kubeletReadOnlyPort |-> I64(10250),
       maxPods |-> <<7, 0, 1, 0>>, podsPerCore |-> I64(-1)] }

Running == proc.status = "running"

\* The calling routine is not inside Run.
Free == runPC \in {"none", "return"}

CallRecord(in, configErr, outcome, f, c) ==
    [in |-> in, configErr |-> configErr, outcome |-> outcome, f |-> f, c |-> c]

Ended(status, at) == [status |-> status, at |-> at]

GetHollowKubeletConfig(in) ==
    /\ Running /\ Free
    /\ Len(calls) < MaxCalls
    /\ \E r1 \in MakeTempDirOrDie("hollow-kubelet.", "", dirs) :
        IF ~r1.ok
        THEN /\ proc' = Ended("fatal", "MakeTempDirOrDie")
             /\ calls' = Append(calls, CallRecord(in, FALSE, "fatal", NilPtr, NilPtr))
             /\ UNCHANGED <<dirs, flagsHeap, configHeap>>
        ELSE \E r2 \in MakeTempDirOrDie("static-pods", r1.path, dirs \cup {r1.path}) :
            IF ~r2.ok
            THEN /\ proc' = Ended("fatal", "MakeTempDirOrDie")
                 /\ calls' = Append(calls, CallRecord(in, FALSE, "fatal", NilPtr, NilPtr))
                 /\ dirs' = dirs \cup {r1.path}
                 /\ UNCHANGED <<flagsHeap, configHeap>>
            ELSE \E err \in {NilRef, "err"} :
                /\ dirs' = dirs \cup {r1.path, r2.path}
                /\ flagsHeap' = Append(flagsHeap,
                        HollowFlags(NewKubeletFlags(defaults), r1.path, in.nodeName))
                /\ IF ConfigPanics(err)
                   THEN /\ proc' = Ended("panic", "NewKubeletConfiguration")
                        /\ calls' = Append(calls,
                                CallRecord(in, err # NilRef, "panic", NilPtr, NilPtr))
                        /\ UNCHANGED configHeap
                   ELSE /\ configHeap' = Append(configHeap,
                                HollowConfig(NewKubeletConfiguration(defaults), r2.path,
                                             in.kubeletPort, in.kubeletReadOnlyPort,
                                             in.maxPods, in.podsPerCore))
                        /\ calls' = Append(calls,
                                CallRecord(in, err # NilRef, "returned",
                                           Len(flagsHeap) + 1, Len(configHeap) + 1))
                        /\ UNCHANGED proc
    /\ UNCHANGED <<defaults, depsHeap, kubelets, news, running, runPC, runResult,
                   invocations>>

----------------------------------------------------------------------------
(* NewHollowKubelet.                                                       *)

\* The collaborators a caller hands to NewHollowKubelet.
Collaborators ==
    { [client |-> "client", heartbeatClient |-> "heartbeatClient",
       cadvisorInterface |-> "cadvisorInterface",
       dockerClientConfig |-> "dockerClientConfig",
       containerManager |-> "containerManager"],
      [client |-> "client", heartbeatClient |-> "client",
       cadvisorInterface |-> NilRef, dockerClientConfig |-> NilRef,
       containerManager |-> "stubContainerManager"] }

\* What the three probes return, each a list of plugins.
EmptydirProbeVolumePlugins == <<"emptydir">>

SecretProbeVolumePlugins == <<"secret">>

ProjectedProbeVolumePlugins == <<"projected">>

\* volumePlugins as built by the two appends.
VolumePlugins ==
    (EmptydirProbeVolumePlugins \o SecretProbeVolumePlugins) \o ProjectedProbeVolumePlugins

\* A collaborator built by this file: the constructor used and whether it
\* is a fake (no effect on the host) or the real implementation.
Built(impl, fake) == [impl |-> impl, fake |-> fake]

\* The kubelet.Dependencies literal.
Dependencies(client, heartbeatClient, cadvisorInterface, dockerClientConfig, containerManager) ==
    [ KubeClient         |-> client,
      HeartbeatClient    |-> heartbeatClient,
      DockerClientConfig |-> dockerClientConfig,
      CAdvisorInterface  |-> cadvisorInterface,
      Cloud              |-> NilRef,
      OSInterface        |-> Built("containertest.FakeOS", TRUE),
      ContainerManager   |-> containerManager,
      VolumePlugins      |-> VolumePlugins,
      TLSOptions         |-> NilRef,
      OOMAdjuster        |-> Built("oom.NewFakeOOMAdjuster", TRUE),
      Mounter            |-> Built("mount.New", FALSE),
      Subpather          |-> Built("subpath.FakeSubpath", TRUE),
      HostUtil           |-> Built("hostutil.NewFakeHostUtil", TRUE) ]

\* A mutated HollowKubelet literal: the configuration pointer is dropped.
HollowKubeletNoConfig(flags, config, d) ==
    [KubeletFlags |-> flags, KubeletConfiguration |-> NilPtr, KubeletDeps |-> d]

\* The HollowKubelet literal.
HollowKubelet(flags, config, d) ==
    [KubeletFlags |-> flags, KubeletConfiguration |-> config, KubeletDeps |-> d]

NewHollowKubelet(flags, config, a) ==
    /\ Running /\ Free
    /\ Len(kubelets) < MaxKubelets
    /\ depsHeap' = Append(depsHeap,
            Dependencies(a.client, a.heartbeatClient, a.cadvisorInterface,
                         a.dockerClientConfig, a.containerManager))
    /\ kubelets' = Append(kubelets, HollowKubelet(flags, config, Len(depsHeap) + 1))
    /\ news' = Append(news, [flags |-> flags, config |-> config, args |-> a,
                             ret |-> Len(kubelets) + 1])
    /\ UNCHANGED <<defaults, dirs, flagsHeap, configHeap, calls, running, runPC,
                   runResult, invocations, proc>>

----------------------------------------------------------------------------
(* HollowKubelet.Run.                                                      *)

\* &options.KubeletServer{...}: copies of the two structs hk points to.
KubeletServer(hk, fh, ch) ==
    [KubeletFlags |-> fh[hk.KubeletFlags],
     KubeletConfiguration |-> ch[hk.KubeletConfiguration]]

\* A mutated call: RunKubelet is invoked a second time.
RunKubeletTwice(inv, server, kubeDeps, runOnce) ==
    Append(Append(inv, [server |-> server, kubeDeps |-> kubeDeps, runOnce |-> runOnce]),
           [server |-> server, kubeDeps |-> kubeDeps, runOnce |-> runOnce])

\* kubeletapp.RunKubelet(server, kubeDeps, runOnce): one invocation.
RunKubelet(inv, server, kubeDeps, runOnce) ==
    Append(inv, [server |-> server, kubeDeps |-> kubeDeps, runOnce |-> runOnce])

\* A mutated Run: without the final select, it returns after a nil result.
AfterRunKubeletReturns(err) == IF err # NilRef THEN "Fatalf" ELSE "return"

\* A mutated Run: the error is logged without ending the process.
AfterRunKubeletLogsOnly(err) == "select"

\* Where Run goes when RunKubelet has returned err.
AfterRunKubelet(err) == IF err # NilRef THEN "Fatalf" ELSE "select"

\* Run reads hk.KubeletFlags, *hk.KubeletFlags and *hk.KubeletConfiguration.
RunDereferencesNil(hk) ==
    \/ hk = NilPtr
    \/ kubelets[hk].KubeletFlags = NilPtr
    \/ kubelets[hk].KubeletConfiguration = NilPtr

\* Run is called on hk; it reads its fields and enters RunKubelet.
Run(hk) ==
    /\ Running /\ Free
    /\ running' = hk
    /\ IF RunDereferencesNil(hk)
       THEN /\ runPC' = "panic"
            /\ proc' = Ended("panic", "Run")
            /\ UNCHANGED invocations
       ELSE /\ runPC' = "RunKubelet"
            /\ invocations' = RunKubelet(invocations,
                    KubeletServer(kubelets[hk], flagsHeap, configHeap),
                    kubelets[hk].KubeletDeps, FALSE)
            /\ UNCHANGED proc
    /\ UNCHANGED <<defaults, dirs, flagsHeap, configHeap, depsHeap, kubelets, calls,
                   news, runResult>>

\* RunKubelet returns err to Run, which ends the process or parks.
RunKubeletReturns(err) ==
    /\ Running
    /\ runPC = "RunKubelet"
    /\ runResult' = IF err = NilRef THEN "nil" ELSE "err"
    /\ runPC' = AfterRunKubelet(err)
    /\ proc' = IF runPC' = "Fatalf" THEN Ended("fatal", "RunKubelet") ELSE proc
    /\ UNCHANGED <<defaults, dirs, flagsHeap, configHeap, depsHeap, kubelets, calls,
                   news, running, invocations>>

----------------------------------------------------------------------------
Init ==
    /\ defaults \in DefaultVariants
    /\ dirs = {"/tmp"}
    /\ flagsHeap = << >>
    /\ configHeap = << >>
    /\ depsHeap = << >>
    /\ kubelets = << >>
    /\ calls = << >>
    /\ news = << >>
    /\ running = NilPtr
    /\ runPC = "none"
    /\ runResult = "none"
    /\ invocations = << >>
    /\ proc = Ended("running", "")

Next ==
    \/ \E in \in Inputs : GetHollowKubeletConfig(in)
    \/ \E flags \in {NilPtr} \cup DOMAIN flagsHeap,
          config \in {NilPtr} \cup DOMAIN configHeap,
          a \in Collaborators : NewHollowKubelet(flags, config, a)
    \/ \E hk \in {NilPtr} \cup DOMAIN kubelets : Run(hk)
    \/ \E err \in {NilRef, "err"} : RunKubeletReturns(err)

Spec == Init /\ [][Next]_vars

----------------------------------------------------------------------------
(* Properties.                                                             *)

Returned == {i \in DOMAIN calls : calls[i].outcome = "returned"}

\* C1: when RunKubelet returns nil, Run neither returns nor ends the
\* process: the calling routine sits in the select, and stays there for ever.
C1_RunParksForever ==
    /\ [](runResult = "nil" => (runPC = "select" /\ Running))
    /\ [][runPC = "select" => (runPC' = "select" /\ proc' = proc)]_vars

C1_Witness == runResult = "nil" /\ runPC = "select" /\ Len(invocations) = 1

\* C2: when RunKubelet returns an error, Run is at the fatal log and the
\* process has exited there; the select is not reached and Run has not returned.
C2_ErrorExits ==
    runResult = "err" =>
        /\ proc = Ended("fatal", "RunKubelet")
        /\ runPC = "Fatalf"
        /\ runPC \notin {"select", "return"}

C2_Witness == runResult = "err" /\ ~Running

\* C3: a call of Run that got past reading its fields has invoked RunKubelet
\* exactly once, whether it is still inside it, has parked or has exited;
\* no invocation exists without such a call.
C3_ExactlyOneInvocation ==
    /\ runPC \in {"RunKubelet", "Fatalf", "select"} => Len(invocations) = 1
    /\ runPC \in {"none", "panic"} => Len(invocations) = 0

C3_Witness == runPC \in {"Fatalf", "select"} /\ Len(invocations) = 1

\* C4: a call in which NewKubeletConfiguration failed panicked there: it is
\* the last call, it returned no flags and no configuration, the process
\* ended by that panic, and no configuration object was written for it.
C4_ConfigFailurePanics ==
    \A i \in DOMAIN calls :
        calls[i].configErr =>
            /\ calls[i].outcome = "panic"
            /\ calls[i].f = NilPtr /\ calls[i].c = NilPtr
            /\ i = Len(calls)
            /\ proc = Ended("panic", "NewKubeletConfiguration")
            /\ Len(configHeap) = Cardinality(Returned)

C4_Witness == \E i \in DOMAIN calls : calls[i].configErr /\ i = 2

\* C5 as stated: the process ends only by the panic on the configuration
\* defaults or by the fatal log on the runtime's error.
C5_TwoFailureModesOnly ==
    ~Running => proc \in { Ended("panic", "NewKubeletConfiguration"),
                           Ended("fatal", "RunKubelet") }

\* C5 amended: the process ends only (1) in GetHollowKubeletConfig when a
\* temporary directory cannot be created, (2) in GetHollowKubeletConfig when
\* NewKubeletConfiguration fails, (3) in Run on a nil receiver or a nil stored
\* flags or configuration pointer, (4) in Run when RunKubelet returns an
\* error; each only when that failure happened, and NewHollowKubelet never.
C5_FailureModes ==
    /\ [](~Running =>
            \/ /\ proc = Ended("fatal", "MakeTempDirOrDie")
               /\ calls # << >> /\ calls[Len(calls)].outcome = "fatal"
            \/ /\ proc = Ended("panic", "NewKubeletConfiguration")
               /\ calls # << >> /\ calls[Len(calls)].configErr
            \/ /\ proc = Ended("panic", "Run")
               /\ \/ running = NilPtr
                  \/ kubelets[running].KubeletFlags = NilPtr
                  \/ kubelets[running].KubeletConfiguration = NilPtr
            \/ /\ proc = Ended("fatal", "RunKubelet")
               /\ runResult = "err")
    /\ [][news' # news => proc' = proc]_vars

C5_Witness ==
    /\ proc = Ended("panic", "Run")
    /\ running # NilPtr
    /\ kubelets[running].KubeletFlags # NilPtr

\* C6 as stated: two calls with the same arguments return flags and
\* configurations equal in every field.
C6_Deterministic ==
    \A i, j \in Returned :
        calls[i].in = calls[j].in =>
            /\ flagsHeap[calls[i].f] = flagsHeap[calls[j].f]
            /\ configHeap[calls[i].c] = configHeap[calls[j].c]

\* C6 amended: two calls with the same arguments return flags and
\* configurations equal in every field other than RootDirectory and
\* StaticPodPath.
C6_DeterministicButDirs ==
    \A i, j \in Returned :
        calls[i].in = calls[j].in =>
            /\ [flagsHeap[calls[i].f] EXCEPT !.RootDirectory = ""]
                 = [flagsHeap[calls[j].f] EXCEPT !.RootDirectory = ""]
            /\ [configHeap[calls[i].c] EXCEPT !.StaticPodPath = ""]
                 = [configHeap[calls[j].c] EXCEPT !.StaticPodPath = ""]

C6_Witness ==
    \E i, j \in Returned :
        /\ i # j
        /\ calls[i].in = calls[j].in
        /\ flagsHeap[calls[i].f].RootDirectory # flagsHeap[calls[j].f].RootDirectory
        /\ configHeap[calls[i].c].StaticPodPath # configHeap[calls[j].c].StaticPodPath

\* The int32 field stored holds the int x: the same low 32 bits, and the
\* same value when x is in the int32 range.
Carries(stored, x) ==
    /\ stored >= -2147483647 - 1 /\ stored <= 2147483647
    /\ I64(stored)[1] = x[1] /\ I64(stored)[2] = x[2]
    /\ InInt32Range(x) => I64(stored) = x

\* C7: the returned structures carry the arguments: HostnameOverride is the
\* node name, ProviderID is "kubemark://" followed by it, and Port,
\* ReadOnlyPort, MaxPods and PodsPerCore hold the four integers narrowed to
\* 32 bits (equal when in the int32 range, congruent modulo 2^32 otherwise).
C7_InputsCarried ==
    \A i \in Returned :
        LET in == calls[i].in
            f  == flagsHeap[calls[i].f]
            c  == configHeap[calls[i].c]
        IN  /\ f.HostnameOverride = in.nodeName
            /\ f.ProviderID = "kubemark://" \o in.nodeName
            /\ Carries(c.Port, in.kubeletPort)
            /\ Carries(c.ReadOnlyPort, in.kubeletReadOnlyPort)
            /\ Carries(c.MaxPods, in.maxPods)
            /\ Carries(c.PodsPerCore, in.podsPerCore)

C7_Witness ==
    \E i, j \in Returned :
        /\ InInt32Range(calls[i].in.kubeletPort)
        /\ configHeap[calls[i].c].Port = 10250
        /\ ~InInt32Range(calls[j].in.kubeletPort)
        /\ configHeap[calls[j].c].Port = 7

\* C8: NewHollowKubelet stores the flags and configuration pointers it was
\* given and the bundle it built; Run hands RunKubelet the flags and
\* configuration its HollowKubelet points to and that very bundle; and no
\* step changes an object of any heap once it exists.
C8_NotMutated ==
    /\ [](/\ \A n \in DOMAIN news :
               /\ kubelets[news[n].ret].KubeletFlags = news[n].flags
               /\ kubelets[news[n].ret].KubeletConfiguration = news[n].config
               /\ kubelets[news[n].ret].KubeletDeps = n
          /\ \A k \in DOMAIN invocations :
               /\ running \in DOMAIN kubelets
               /\ invocations[k].server.KubeletFlags
                    = flagsHeap[kubelets[running].KubeletFlags]
               /\ invocations[k].server.KubeletConfiguration
                    = configHeap[kubelets[running].KubeletConfiguration]
               /\ invocations[k].kubeDeps = kubelets[running].KubeletDeps)
    /\ [][/\ \A a \in DOMAIN flagsHeap  : flagsHeap'[a]  = flagsHeap[a]
          /\ \A a \in DOMAIN configHeap : configHeap'[a] = configHeap[a]
          /\ \A a \in DOMAIN depsHeap   : depsHeap'[a]   = depsHeap[a]
          /\ \A a \in DOMAIN kubelets   : kubelets'[a]   = kubelets[a]]_vars

C8_Witness ==
    /\ Len(invocations) = 1
    /\ runPC = "select"
    /\ kubelets[running].KubeletFlags = 2
    /\ kubelets[running].KubeletConfiguration = 1

\* C9: in the returned structures every field the function does not assign
\* has the default of NewKubeletFlags / NewKubeletConfiguration, and every
\* field it assigns a fixed value has that value whatever the default was.
C9_DefaultsAndOverrides ==
    \A i \in Returned :
        LET f == flagsHeap[calls[i].f]
            c == configHeap[calls[i].c]
        IN  /\ f.Rest = NewKubeletFlags(defaults).Rest
            /\ c.Rest = NewKubeletConfiguration(defaults).Rest
            /\ f.EnableServer = TRUE
            /\ f.MinimumGCAge = 60
            /\ f.MaxContainerCount = 100
            /\ f.MaxPerPodContainerCount = 2
            /\ f.RegisterNode = TRUE
            /\ f.RegisterSchedulable = TRUE
            /\ c.StaticPodURL = ""
            /\ c.Address = "0.0.0.0"
            /\ c.FileCheckFrequency = 20
            /\ c.HTTPCheckFrequency = 20
            /\ c.NodeStatusUpdateFrequency = 10
            /\ c.NodeStatusReportFrequency = 60
            /\ c.SyncFrequency = 10
            /\ c.EvictionPressureTransitionPeriod = 300
            /\ c.ClusterDNS = << >>
            /\ c.ImageGCHighThresholdPercent = 90
            /\ c.ImageGCLowThresholdPercent = 80
            /\ c.VolumeStatsAggPeriod = 60
            /\ c.CgroupRoot = ""
            /\ c.CPUCFSQuota = TRUE
            /\ c.EnableControllerAttachDetach = FALSE
            /\ c.EnableDebuggingHandlers = TRUE
            /\ c.CgroupsPerQOS = FALSE
            /\ c.HairpinMode = "kubeletconfig.HairpinVeth"
            /\ c.MaxOpenFiles = 1024
            /\ c.RegistryBurst = 10
            /\ c.RegistryPullQPS = 5
            /\ c.ResolverConfig = "kubetypes.ResolvConfDefault"
            /\ c.KubeletCgroups = "/kubelet"
            /\ c.SerializeImagePulls = TRUE
            /\ c.SystemCgroups = ""
            /\ c.ProtectKernelDefaults = FALSE

C9_Witness ==
    /\ Returned # {}
    /\ NewKubeletConfiguration(defaults).EnableControllerAttachDetach = TRUE
    /\ NewKubeletConfiguration(defaults).CgroupsPerQOS = TRUE
    /\ NewKubeletConfiguration(defaults).ImageGCHighThresholdPercent # 90
    /\ NewKubeletFlags(defaults).MaxContainerCount # 100

\* C10: the bundle passes the caller's five collaborators through, has no
\* cloud and no TLS options, lists the volume plugins as empty-dir, secret,
\* projected, and every system-integration collaborator in it (OS interface,
\* OOM adjuster, mounter, subpath handler, host-util) is a fake.
C10_DependencyBundle ==
    \A n \in DOMAIN news :
        LET d == depsHeap[kubelets[news[n].ret].KubeletDeps]
            a == news[n].args
        IN  /\ d.KubeClient = a.client
            /\ d.HeartbeatClient = a.heartbeatClient
            /\ d.CAdvisorInterface = a.cadvisorInterface
            /\ d.DockerClientConfig = a.dockerClientConfig
            /\ d.ContainerManager = a.containerManager
            /\ d.Cloud = NilRef
            /\ d.TLSOptions = NilRef
            /\ d.VolumePlugins = <<"emptydir", "secret", "projected">>
            /\ d.OSInterface.fake /\ d.OOMAdjuster.fake
            /\ d.Subpather.fake /\ d.HostUtil.fake
            /\ d.Mounter.fake

====
